---- MODULE Spec2Model ----
(***************************************************************************)
(* Model of package gitbackup (src/lib/backup.go): BackupTarget, the two   *)
(* listing functions getGitHubRepoList / getBitBucketRepoList, and         *)
(* backupRepository.                                                       *)
(*                                                                         *)
(* Strings the code inspects character by character (clone URLs, entity,   *)
(* token, password) are sequences of one-character strings.  Names that    *)
(* are only used as path segments (target name, repository name) are TLA+  *)
(* strings; names containing a path separator are outside the model.       *)
(* The filesystem below backupDirectory is the set of existing paths, a    *)
(* path being the sequence of its segments (<<>> is backupDirectory).      *)
(***************************************************************************)
EXTENDS Integers, Sequences, FiniteSets, TLC

VARIABLES
    fs,        \* set of paths that exist under backupDirectory
    cloned,    \* history: paths a mirror clone succeeded on
    partial,   \* history: paths a failed clone left behind
    pc,        \* position of the BackupTarget call
    target,    \* the target map of the current call
    response,  \* what the provider answers to the listing GET
    repoList,  \* repoList of BackupTarget
    err,       \* err of BackupTarget after the switch
    idx,       \* index of the range loop over repoList
    running,   \* indices of syncLog whose git process has not returned
    syncLog,   \* the git invocations of the current call, in order
    netCalls,  \* number of http.Get calls of the current call
    result     \* value returned by BackupTarget

vars == <<fs, cloned, partial, pc, target, response, repoList, err, idx,
          running, syncLog, netCalls, result>>

(***************************************************************************)
(* Bounds                                                                  *)
(***************************************************************************)
MaxItems == 2
MaxLinks == 2

(***************************************************************************)
(* Strings                                                                 *)
(***************************************************************************)
HTTPS == <<"h", "t", "t", "p", "s", ":", "/", "/">>

Absent == "<absent>"

NoStr == [ok |-> FALSE]

Str(s) == [ok |-> TRUE, s |-> s]

\* v.(string) with the ok result discarded: the zero value when v is absent
StringOrZero(v) == IF v.ok THEN v.s ELSE <<>>

NameOrZero(n) == IF n = Absent THEN "" ELSE n

OccursAt(s, old, i) ==
    /\ i >= 1
    /\ i + Len(old) - 1 <= Len(s)
    /\ SubSeq(s, i, i + Len(old) - 1) = old

\* strings.Index, 1-based; 0 when old does not occur in s
Index(s, old) ==
    IF \E i \in 1..Len(s) : OccursAt(s, old, i)
    THEN CHOOSE i \in 1..Len(s) :
            /\ OccursAt(s, old, i)
            /\ \A j \in 1..(i - 1) : ~OccursAt(s, old, j)
    ELSE 0

ReplaceFirst(s, old, new) ==
    LET i == Index(s, old) IN
    IF i = 0 THEN s
    ELSE SubSeq(s, 1, i - 1) \o new \o SubSeq(s, i + Len(old), Len(s))

RECURSIVE ReplaceAll(_, _, _)
ReplaceAll(s, old, new) ==
    LET i == Index(s, old) IN
    IF i = 0 THEN s
    ELSE SubSeq(s, 1, i - 1) \o new
         \o ReplaceAll(SubSeq(s, i + Len(old), Len(s)), old, new)

\* strings.Replace(s, old, new, 1)
Replace1(s, old, new) == ReplaceFirst(s, old, new)

\* fmt.Sprintf("https://%s:%s@", entity, secret)
AuthPrefix(entity, secret) == HTTPS \o entity \o <<":">> \o secret \o <<"@">>

\* fmt.Sprintf("https://%s@", entity)
UserPrefix(entity) == HTTPS \o entity \o <<"@">>

(***************************************************************************)
(* Errors                                                                  *)
(***************************************************************************)
NoErr == [kind |-> "nil"]

ErrConnect == [kind |-> "Failed to connect with the source"]

ErrRead == [kind |-> "Failed to retrieve the list of repositories"]

ErrJSON == [kind |-> "Failed to parse JSON"]

ErrNoHTTPS == [kind |-> "Could not determine HTTPS cloning URL"]

ErrSource(source) == [kind |-> "is not a recognized source type", source |-> source]

(***************************************************************************)
(* getGitHubRepoList                                                       *)
(***************************************************************************)
GitHubCloneURLAll(target_, item) ==
    ReplaceAll(StringOrZero(item.clone_url), HTTPS,
               AuthPrefix(target_.entity, target_.token))

GitHubCloneURL(target_, item) ==
    Replace1(StringOrZero(item.clone_url), HTTPS,
             AuthPrefix(target_.entity, target_.token))

GitHubRepo(target_, item) ==
    [name |-> NameOrZero(item.name), cloneURL |-> GitHubCloneURL(target_, item)]

getGitHubRepoList(target_, resp) ==
    IF resp.kind = "connfail" THEN [list |-> <<>>, err |-> ErrConnect, gets |-> 1]
    ELSE IF resp.kind = "readfail" THEN [list |-> <<>>, err |-> ErrRead, gets |-> 1]
    ELSE IF resp.kind = "badjson" THEN [list |-> <<>>, err |-> ErrJSON, gets |-> 1]
    ELSE [list |-> [i \in 1..Len(resp.items) |-> GitHubRepo(target_, resp.items[i])],
          err |-> NoErr, gets |-> 1]

(***************************************************************************)
(* getBitBucketRepoList                                                    *)
(***************************************************************************)
NoLinks == [ok |-> FALSE]

NoClone == [ok |-> FALSE]

Links(clone) == [ok |-> TRUE, clone |-> clone]

Clone(list) == [ok |-> TRUE, list |-> list]

\* the range loop over cloneLinks: every entry named "https" overwrites cloneURL
RECURSIVE FindHTTPS(_, _)
FindHTTPS(cloneLinks, cloneURL) ==
    IF cloneLinks = <<>> THEN cloneURL
    ELSE FindHTTPS(Tail(cloneLinks),
                   IF Head(cloneLinks).name = "https"
                   THEN Head(cloneLinks).href ELSE cloneURL)

HTTPSHref(item) == FindHTTPS(item.links.clone.list, <<>>)

NoURLCheckSkipped(cloneURL) == FALSE

\* if cloneURL == ""
NoURL(cloneURL) == cloneURL = <<>>

BitBucketItemErr(item) ==
    IF item.name = Absent THEN ErrJSON
    ELSE IF ~item.links.ok THEN ErrJSON
    ELSE IF ~item.links.clone.ok THEN ErrJSON
    ELSE IF NoURL(HTTPSHref(item)) THEN ErrNoHTTPS
    ELSE NoErr

BitBucketCloneURLAnyUser(target_, href) ==
    Replace1(href, HTTPS, AuthPrefix(target_.entity, target_.password))

BitBucketCloneURL(target_, href) ==
    Replace1(href, UserPrefix(target_.entity),
             AuthPrefix(target_.entity, target_.password))

BitBucketRepo(target_, item) ==
    [name |-> item.name, cloneURL |-> BitBucketCloneURL(target_, HTTPSHref(item))]

BitBucketItemsSkipBad(target_, items) ==
    LET good == SelectSeq(items, LAMBDA it : BitBucketItemErr(it) = NoErr) IN
    [list |-> [i \in 1..Len(good) |-> BitBucketRepo(target_, good[i])],
     err |-> NoErr]

\* the range loop over data: the first item that fails returns nil and the error
BitBucketItems(target_, items) ==
    LET bad == {i \in 1..Len(items) : BitBucketItemErr(items[i]) # NoErr} IN
    IF bad # {}
    THEN [list |-> <<>>,
          err |-> BitBucketItemErr(items[CHOOSE i \in bad : \A j \in bad : i <= j])]
    ELSE [list |-> [i \in 1..Len(items) |-> BitBucketRepo(target_, items[i])],
          err |-> NoErr]

getBitBucketRepoList(target_, resp) ==
    IF resp.kind = "connfail" THEN [list |-> <<>>, err |-> ErrConnect, gets |-> 1]
    ELSE IF resp.kind = "readfail" THEN [list |-> <<>>, err |-> ErrRead, gets |-> 1]
    ELSE IF resp.kind = "badjson" THEN [list |-> <<>>, err |-> ErrJSON, gets |-> 1]
    ELSE IF resp.kind = "badvalues" THEN [list |-> <<>>, err |-> ErrJSON, gets |-> 1]
    ELSE LET r == BitBucketItems(target_, resp.items) IN
         [list |-> r.list, err |-> r.err, gets |-> 1]

(***************************************************************************)
(* BackupTarget: the switch on target["source"]                            *)
(***************************************************************************)
Registered == {"github", "bitbucket"}

ListReposDefaultGitHub(target_, resp) ==
    IF target_.source = "github" THEN getGitHubRepoList(target_, resp)
    ELSE IF target_.source = "bitbucket" THEN getBitBucketRepoList(target_, resp)
    ELSE getGitHubRepoList(target_, [kind |-> "connfail"])

ListRepos(target_, resp) ==
    IF target_.source = "github" THEN getGitHubRepoList(target_, resp)
    ELSE IF target_.source = "bitbucket" THEN getBitBucketRepoList(target_, resp)
    ELSE [list |-> <<>>, err |-> ErrSource(target_.source), gets |-> 0]

\* if (err != nil) { return err }
ErrAborts(e) == e # NoErr

RepoAtReversed(list, i) == list[Len(list) + 1 - i]

\* the range loop's i-th element
RepoAt(list, i) == list[i]

AfterSyncAbortOnFailure(i, ok, n) == IF ok THEN i + 1 ELSE n + 1

\* the loop ignores the outcome of backupRepository, which returns nothing
AfterSync(i, ok, n) == i + 1

ReturnValueSyncErrors(log) ==
    IF \E i \in 1..Len(log) : log[i].outcome = "failed"
    THEN [kind |-> "sync failed"] ELSE NoErr

\* return nil, after the loop
ReturnValue(log) == NoErr

(***************************************************************************)
(* backupRepository                                                        *)
(***************************************************************************)
\* filepath.Join(backupDirectory, targetName, repoName), relative to
\* backupDirectory: empty elements are dropped
Join(targetName, repoName) == SelectSeq(<<targetName, repoName>>, LAMBDA x : x # "")

Prefixes(path) == {SubSeq(path, 1, k) : k \in 0..Len(path)}

IsNotExistAlways(path, fsys) == TRUE

\* _, err := os.Stat(cloneDirectory); os.IsNotExist(err)
IsNotExist(path, fsys) == path \notin fsys

SyncKind(path, fsys) == IF IsNotExist(path, fsys) THEN "clone" ELSE "fetch"

FsAfterSyncCleanup(fsys, path, kind, ok, residue) ==
    IF kind = "clone" /\ ok THEN fsys \cup Prefixes(path)
    ELSE IF kind = "clone" THEN fsys \ {path}
    ELSE fsys

\* What the git process leaves on disk.  clone --mirror creates the path and
\* its leading directories on success; a failed clone leaves nothing, the
\* leading directories only, or the partially written path; backupRepository
\* removes nothing.  fetch -p runs inside the existing path.
FsAfterSync(fsys, path, kind, ok, residue) ==
    IF kind = "clone" /\ ok THEN fsys \cup Prefixes(path)
    ELSE IF kind = "clone" /\ residue = "all" THEN fsys \cup Prefixes(path)
    ELSE IF kind = "clone" /\ residue = "parents"
         THEN fsys \cup (Prefixes(path) \ {path})
    ELSE fsys

(***************************************************************************)
(* Inputs                                                                  *)
(***************************************************************************)
SeqsUpTo(S, n) == UNION {[1..k -> S] : k \in 0..n}

Entity == <<"e">>

Token == <<"T">>

Password == <<"P">>

Host == <<"g", "/", "r">>

Sources == {"github", "bitbucket", "gitlab", ""}

TargetNames == {"t"}

Targets ==
    [name : TargetNames, source : Sources, entity : {Entity},
     token : {Token}, password : {Password}]

RepoNames == {"a", "b"}

AllPaths ==
    {<<>>} \cup {<<t>> : t \in TargetNames}
    \cup {<<t, n>> : t \in TargetNames, n \in RepoNames}

PrefixClosed(S) == \A p \in S : Prefixes(p) \subseteq S

NoResponse == [kind |-> "none"]

Failed(kinds) == [kind : kinds]

Ok(itemSeqs) == {[kind |-> "ok", items |-> its] : its \in itemSeqs}

\* BackupTarget runs: few URL shapes, every shape of failure
GitHubItems == [name : RepoNames \cup {Absent}, clone_url : {Str(HTTPS \o Host), NoStr}]

GoodLink == [name |-> "https", href |-> UserPrefix(Entity) \o Host]

SSHLink == [name |-> "ssh", href |-> <<"g", "i", "t", "@">> \o Host]

BitBucketItemSet ==
    [name : RepoNames, links : {Links(Clone(<<GoodLink>>)), Links(Clone(<<SSHLink>>))}]
    \cup {[name |-> Absent, links |-> Links(Clone(<<GoodLink>>))],
          [name |-> "a", links |-> NoLinks],
          [name |-> "b", links |-> Links(NoClone)]}

Responses(source) ==
    IF source = "github"
    THEN Failed({"connfail", "readfail", "badjson"})
         \cup Ok(SeqsUpTo(GitHubItems, MaxItems))
    ELSE IF source = "bitbucket"
    THEN Failed({"connfail", "readfail", "badjson", "badvalues"})
         \cup Ok(SeqsUpTo(BitBucketItemSet, MaxItems))
    ELSE {NoResponse}

Pending == [kind |-> "pending"]

(***************************************************************************)
(* BackupTarget                                                            *)
(***************************************************************************)
Init ==
    /\ fs \in {S \in SUBSET AllPaths : PrefixClosed(S)}
    /\ cloned = {}
    /\ partial = {}
    /\ pc = "idle"
    /\ target = [name |-> "t", source |-> "", entity |-> Entity,
                 token |-> Token, password |-> Password]
    /\ response = NoResponse
    /\ repoList = <<>>
    /\ err = NoErr
    /\ idx = 1
    /\ running = {}
    /\ syncLog = <<>>
    /\ netCalls = 0
    /\ result = Pending

\* lines 28-44: the switch, the listing call, the early return
Call ==
    /\ pc = "idle"
    /\ \E tg \in Targets : \E resp \in Responses(tg.source) :
          LET r == ListRepos(tg, resp) IN
          /\ target' = tg
          /\ response' = resp
          /\ repoList' = r.list
          /\ err' = r.err
          /\ netCalls' = r.gets
          /\ pc' = IF ErrAborts(r.err) THEN "returned" ELSE "loop"
          /\ result' = IF ErrAborts(r.err) THEN r.err ELSE Pending
    /\ idx' = 1
    /\ running' = {}
    /\ syncLog' = <<>>
    /\ UNCHANGED <<fs, cloned, partial>>

\* lines 47-53 and 186-196/209-211: the loop picks the next repository,
\* backupRepository stats the path and starts git
SyncStart ==
    /\ pc = "loop"
    /\ idx <= Len(repoList)
    /\ LET repo == RepoAt(repoList, idx)
           path == Join(target.name, repo.name)
       IN  syncLog' = Append(syncLog,
               [name |-> repo.name, cloneURL |-> repo.cloneURL, path |-> path,
                kind |-> SyncKind(path, fs), outcome |-> "running",
                existed |-> path \in fs,
                priorClone |-> path \in cloned,
                priorPartial |-> path \in partial])
    /\ running' = running \cup {Len(syncLog) + 1}
    /\ pc' = "exec"
    /\ UNCHANGED <<fs, cloned, partial, target, response, repoList, err, idx,
                   netCalls, result>>

\* lines 196-204/211-220: CombinedOutput returns, the outcome is printed
SyncEnd ==
    /\ pc = "exec"
    /\ LET i == Len(syncLog)
           e == syncLog[i]
       IN  \E ok \in BOOLEAN : \E residue \in {"none", "parents", "all"} :
              /\ (ok \/ e.kind = "fetch") => residue = "none"
              /\ fs' = FsAfterSync(fs, e.path, e.kind, ok, residue)
              /\ cloned' = IF e.kind = "clone" /\ ok
                           THEN cloned \cup {e.path} ELSE cloned
              /\ partial' = IF e.kind = "clone" /\ ~ok /\ residue = "all"
                            THEN partial \cup {e.path} ELSE partial
              /\ syncLog' = [syncLog EXCEPT
                                ![i].outcome = IF ok THEN "ok" ELSE "failed"]
              /\ running' = running \ {i}
              /\ idx' = AfterSync(idx, ok, Len(repoList))
    /\ pc' = "loop"
    /\ UNCHANGED <<target, response, repoList, err, netCalls, result>>

\* line 56
Return ==
    /\ pc = "loop"
    /\ idx > Len(repoList)
    /\ result' = ReturnValue(syncLog)
    /\ pc' = "returned"
    /\ UNCHANGED <<fs, cloned, partial, target, response, repoList, err, idx,
                   running, syncLog, netCalls>>

\* the caller has taken the returned value; the locals of the call are gone
\* and only the filesystem (with its history) is left for the next call
Done ==
    /\ pc = "returned"
    /\ pc' = "idle"
    /\ target' = [name |-> "t", source |-> "", entity |-> Entity,
                  token |-> Token, password |-> Password]
    /\ response' = NoResponse
    /\ repoList' = <<>>
    /\ err' = NoErr
    /\ idx' = 1
    /\ running' = {}
    /\ syncLog' = <<>>
    /\ netCalls' = 0
    /\ result' = Pending
    /\ UNCHANGED <<fs, cloned, partial>>

Next == Call \/ SyncStart \/ SyncEnd \/ Return \/ Done

Spec == Init /\ [][Next]_vars

(***************************************************************************)
(* The listing functions on their own, over every shape of clone URL       *)
(***************************************************************************)
ListTargets ==
    [name : {"t"}, source : Registered, entity : {Entity},
     token : {Token}, password : {Password}]

GitHubURLs ==
    {NoStr,
     Str(HTTPS \o Host),
     Str(<<"g", "i", "t", ":">> \o Host),
     Str(<<"x", "?">> \o HTTPS \o Host),
     Str(HTTPS \o Host \o <<"?">> \o HTTPS \o Host)}

GitHubListItems == [name : {"a", Absent}, clone_url : GitHubURLs]

BitBucketHrefs ==
    {UserPrefix(Entity) \o Host,
     HTTPS \o Host}

EmptyLink == [name |-> "https", href |-> <<>>]

BitBucketLinks == [name : {"https"}, href : BitBucketHrefs] \cup {SSHLink}

BitBucketListItems ==
    [name : {"a"},
     links : {NoLinks, Links(NoClone),
              Links(Clone(<<EmptyLink>>)),
              Links(Clone(<<GoodLink, EmptyLink>>)),
              Links(Clone(<<EmptyLink, GoodLink>>))}
             \cup {Links(Clone(l)) : l \in SeqsUpTo(BitBucketLinks, MaxLinks)}]
    \cup {[name |-> Absent, links |-> Links(Clone(<<GoodLink>>))]}

ListResponses(source) ==
    IF source = "github"
    THEN Failed({"connfail", "readfail", "badjson"})
         \cup Ok(SeqsUpTo(GitHubListItems, MaxItems))
    ELSE Failed({"connfail", "readfail", "badjson", "badvalues"})
         \cup Ok(SeqsUpTo(BitBucketListItems, MaxItems))

InitList ==
    /\ fs = {}
    /\ cloned = {}
    /\ partial = {}
    /\ pc = "list"
    /\ target \in ListTargets
    /\ response \in ListResponses(target.source)
    /\ repoList = <<>>
    /\ err = NoErr
    /\ idx = 1
    /\ running = {}
    /\ syncLog = <<>>
    /\ netCalls = 0
    /\ result = Pending

ListGitHub ==
    /\ pc = "list"
    /\ target.source = "github"
    /\ LET r == getGitHubRepoList(target, response) IN
          /\ repoList' = r.list
          /\ err' = r.err
          /\ netCalls' = r.gets
    /\ pc' = "listed"
    /\ UNCHANGED <<fs, cloned, partial, target, response, idx, running,
                   syncLog, result>>

ListBitBucket ==
    /\ pc = "list"
    /\ target.source = "bitbucket"
    /\ LET r == getBitBucketRepoList(target, response) IN
          /\ repoList' = r.list
          /\ err' = r.err
          /\ netCalls' = r.gets
    /\ pc' = "listed"
    /\ UNCHANGED <<fs, cloned, partial, target, response, idx, running,
                   syncLog, result>>

NextList == ListGitHub \/ ListBitBucket

SpecList == InitList /\ [][NextList]_vars

(***************************************************************************)
(* Vocabulary of the properties                                            *)
(***************************************************************************)
StartsWith(s, p) == Len(p) <= Len(s) /\ SubSeq(s, 1, Len(p)) = p

Positions(s, p) == {i \in 1..Len(s) : i + Len(p) - 1 <= Len(s)
                                       /\ SubSeq(s, i, i + Len(p) - 1) = p}

Contains(s, p) == Positions(s, p) # {}

After(s, p) == SubSeq(s, Len(p) + 1, Len(s))

\* occurrences of https:// that are not followed by the credentials
Unexpanded(s, auth) == Positions(s, HTTPS) \ Positions(s, auth)

Entries(log) == {log[i] : i \in 1..Len(log)}

InCall == pc \in {"loop", "exec", "returned"}

HTTPSEntries(item) ==
    {k \in 1..Len(item.links.clone.list) : item.links.clone.list[k].name = "https"}

HasCloneArray(item) == item.links.ok /\ item.links.clone.ok

LastHTTPSHref(item) ==
    item.links.clone.list[CHOOSE k \in HTTPSEntries(item) :
                              \A j \in HTTPSEntries(item) : j <= k].href

\* a bitbucket item the listing cannot be built from
Malformed(item) ==
    \/ item.name = Absent
    \/ ~item.links.ok
    \/ ~item.links.clone.ok
    \/ HTTPSEntries(item) = {}

ListingFails ==
    /\ target.source \in Registered
    /\ \/ response.kind # "ok"
       \/ /\ target.source = "bitbucket"
          /\ \E i \in 1..Len(response.items) : Malformed(response.items[i])

(***************************************************************************)
(* C1: a sync of a path that does not exist is a mirror clone and a sync   *)
(* of a path that exists is a fetch; a clone is never issued for an        *)
(* existing path, a path once cloned successfully stays in place, and      *)
(* every later sync of it is a fetch.                                      *)
(***************************************************************************)
C1_CloneThenFetch ==
    /\ cloned \subseteq fs
    /\ \A e \in Entries(syncLog) :
          /\ e.existed => e.kind = "fetch"
          /\ ~e.existed => e.kind = "clone"
          /\ e.priorClone => e.kind = "fetch"

C1_Witness ==
    \E e \in Entries(syncLog) : e.priorClone /\ e.kind = "fetch" /\ e.outcome = "ok"

(***************************************************************************)
(* C2: a target whose source is not a registered provider key issues no    *)
(* listing request and no clone or fetch, and BackupTarget returns an      *)
(* error carrying the offending source value.                              *)
(***************************************************************************)
C2_UnrecognizedSource ==
    (InCall /\ target.source \notin Registered) =>
        /\ netCalls = 0
        /\ syncLog = <<>>
        /\ pc = "returned"
        /\ result = ErrSource(target.source)
        /\ result # NoErr

C2_Witness ==
    /\ pc = "returned"
    /\ target.source = "gitlab"
    /\ result = ErrSource("gitlab")
    /\ netCalls = 0

(***************************************************************************)
(* C3: when the listing succeeds, a failed clone or fetch does not stop    *)
(* the loop: the syncs issued so far are those of the first repositories   *)
(* of the list, one each, and at return every listed repository has had    *)
(* exactly one sync attempt.                                               *)
(***************************************************************************)
C3_FailureContained ==
    /\ (pc \in {"loop", "exec"}) =>
          /\ Len(syncLog) = (IF pc = "exec" THEN idx ELSE idx - 1)
          /\ Len(syncLog) <= Len(repoList)
    /\ (pc = "returned" /\ err = NoErr) => Len(syncLog) = Len(repoList)
    /\ InCall => \A i \in 1..Len(syncLog) :
                    /\ syncLog[i].name = repoList[i].name
                    /\ syncLog[i].cloneURL = repoList[i].cloneURL

C3_Witness ==
    /\ pc = "returned"
    /\ Len(syncLog) = 2
    /\ syncLog[1].outcome = "failed"
    /\ syncLog[2].outcome \in {"ok", "failed"}

(***************************************************************************)
(* C4: a listing that fails (transport error, undecodable body, or a       *)
(* malformed item anywhere in the payload) yields no descriptors and no    *)
(* clone or fetch, and BackupTarget returns the error.                     *)
(***************************************************************************)
C4_ListingAllOrNothing ==
    (InCall /\ ListingFails) =>
        /\ repoList = <<>>
        /\ syncLog = <<>>
        /\ err # NoErr
        /\ pc = "returned"
        /\ result = err

C4_Witness ==
    /\ pc = "returned"
    /\ target.source = "bitbucket"
    /\ response.kind = "ok"
    /\ Len(response.items) = 2
    /\ ~Malformed(response.items[1])
    /\ Malformed(response.items[2])
    /\ result = ErrJSON

(***************************************************************************)
(* C5: a bitbucket payload with an item whose links.clone array has no     *)
(* entry named "https" makes getBitBucketRepoList return an error and no   *)
(* descriptor at all.                                                      *)
(***************************************************************************)
C5_MissingHTTPSLinkFails ==
    (/\ pc = "listed"
     /\ target.source = "bitbucket"
     /\ response.kind = "ok"
     /\ \E i \in 1..Len(response.items) :
           /\ HasCloneArray(response.items[i])
           /\ HTTPSEntries(response.items[i]) = {})
    => (err # NoErr /\ repoList = <<>>)

C5_Witness ==
    /\ pc = "listed"
    /\ target.source = "bitbucket"
    /\ response.kind = "ok"
    /\ Len(response.items) = 2
    /\ ~Malformed(response.items[1])
    /\ LastHTTPSHref(response.items[1]) # <<>>
    /\ HasCloneArray(response.items[2])
    /\ response.items[2].links.clone.list = <<SSHLink>>
    /\ err = ErrNoHTTPS
    /\ repoList = <<>>

(***************************************************************************)
(* C6 as stated: every descriptor of a decoded github payload has a clone  *)
(* URL that begins with https://<entity>:<token>@ and holds no unexpanded  *)
(* https://.                                                               *)
(***************************************************************************)
C6_AsStated ==
    (pc = "listed" /\ target.source = "github" /\ response.kind = "ok") =>
        \A i \in 1..Len(repoList) :
            /\ StartsWith(repoList[i].cloneURL, AuthPrefix(target.entity, target.token))
            /\ Unexpanded(repoList[i].cloneURL,
                          AuthPrefix(target.entity, target.token)) = {}

(***************************************************************************)
(* C6 amended: a decoded github payload yields one descriptor per item,    *)
(* in order.  A clone_url that begins with https:// becomes                *)
(* https://<entity>:<token>@ followed by the rest of the URL unchanged; an *)
(* absent clone_url becomes the empty URL; a clone_url without https://    *)
(* is kept as it is; only the first https:// of a URL is expanded.         *)
(***************************************************************************)
C6_FirstPrefixExpanded ==
    (pc = "listed" /\ target.source = "github" /\ response.kind = "ok") =>
        /\ err = NoErr
        /\ Len(repoList) = Len(response.items)
        /\ \A i \in 1..Len(repoList) :
              LET u == response.items[i].clone_url
                  url == repoList[i].cloneURL
                  auth == AuthPrefix(target.entity, target.token)
              IN  /\ ~u.ok => url = <<>>
                  /\ (u.ok /\ StartsWith(u.s, HTTPS)) =>
                        url = auth \o After(u.s, HTTPS)
                  /\ (u.ok /\ ~Contains(u.s, HTTPS)) => url = u.s
                  /\ (u.ok /\ Contains(u.s, HTTPS)) =>
                        /\ Cardinality(Positions(url, auth)) = 1
                        /\ Cardinality(Unexpanded(url, auth)) =
                              Cardinality(Positions(u.s, HTTPS)) - 1

C6_Witness ==
    /\ pc = "listed"
    /\ target.source = "github"
    /\ response.kind = "ok"
    /\ \E i \in 1..Len(repoList) :
          /\ response.items[i].clone_url.ok
          /\ StartsWith(response.items[i].clone_url.s, HTTPS)
          /\ Cardinality(Positions(response.items[i].clone_url.s, HTTPS)) = 2
          /\ StartsWith(repoList[i].cloneURL, AuthPrefix(target.entity, target.token))
          /\ Cardinality(Unexpanded(repoList[i].cloneURL,
                                    AuthPrefix(target.entity, target.token))) = 1

(***************************************************************************)
(* C7 as stated: when every item of a bitbucket payload has a name and a   *)
(* links.clone array with an entry named "https" whose href is not empty,  *)
(* every descriptor's clone URL begins with https://<entity>:<password>@.  *)
(***************************************************************************)
ValidBitBucketItem(item) ==
    /\ item.name # Absent
    /\ HasCloneArray(item)
    /\ \E k \in HTTPSEntries(item) : item.links.clone.list[k].href # <<>>

C7_AsStated ==
    (/\ pc = "listed"
     /\ target.source = "bitbucket"
     /\ response.kind = "ok"
     /\ \A i \in 1..Len(response.items) : ValidBitBucketItem(response.items[i]))
    => \A i \in 1..Len(repoList) :
          StartsWith(repoList[i].cloneURL, AuthPrefix(target.entity, target.password))

(***************************************************************************)
(* C7 amended: when every item of a bitbucket payload has a name and a     *)
(* links.clone array whose last entry named "https" has a non-empty href,  *)
(* the listing succeeds with one descriptor per item, in order; its clone  *)
(* URL is https://<entity>:<password>@ followed by the rest of that href   *)
(* when the href begins with https://<entity>@, and is the href unchanged  *)
(* when the href does not contain https://<entity>@.                       *)
(***************************************************************************)
UsableBitBucketItem(item) ==
    /\ item.name # Absent
    /\ HasCloneArray(item)
    /\ HTTPSEntries(item) # {}
    /\ LastHTTPSHref(item) # <<>>

C7_UserPrefixExpanded ==
    (/\ pc = "listed"
     /\ target.source = "bitbucket"
     /\ response.kind = "ok"
     /\ \A i \in 1..Len(response.items) : UsableBitBucketItem(response.items[i]))
    => /\ err = NoErr
       /\ Len(repoList) = Len(response.items)
       /\ \A i \in 1..Len(repoList) :
             LET h == LastHTTPSHref(response.items[i])
                 url == repoList[i].cloneURL
                 user == UserPrefix(target.entity)
             IN  /\ StartsWith(h, user) =>
                       url = AuthPrefix(target.entity, target.password) \o After(h, user)
                 /\ ~Contains(h, user) => url = h

C7_Witness ==
    /\ pc = "listed"
    /\ target.source = "bitbucket"
    /\ response.kind = "ok"
    /\ Len(repoList) = 2
    /\ \A i \in 1..2 : UsableBitBucketItem(response.items[i])
    /\ StartsWith(LastHTTPSHref(response.items[1]), UserPrefix(target.entity))
    /\ StartsWith(repoList[1].cloneURL, AuthPrefix(target.entity, target.password))
    /\ Len(response.items[2].links.clone.list) = 2

(***************************************************************************)
(* C8: the i-th git invocation of a call is for the i-th item of the       *)
(* listing payload, every invocation but the last has returned, and at     *)
(* most one git process is in progress.                                    *)
(***************************************************************************)
C8_SequentialInOrder ==
    /\ Cardinality(running) <= 1
    /\ running = {i \in 1..Len(syncLog) : syncLog[i].outcome = "running"}
    /\ \A i \in 1..Len(syncLog) :
          /\ i < Len(syncLog) => syncLog[i].outcome # "running"
          /\ response.kind = "ok"
          /\ i <= Len(response.items)
          /\ syncLog[i].name = NameOrZero(response.items[i].name)

C8_Witness ==
    /\ pc = "exec"
    /\ Len(syncLog) = 2
    /\ syncLog[1].name = "a"
    /\ syncLog[2].name = "b"
    /\ syncLog[1].outcome = "failed"
    /\ running = {2}

(***************************************************************************)
(* C9: a path left behind by a failed clone stays in place, is never       *)
(* cloned afterwards, and every later sync of it is a fetch.               *)
(***************************************************************************)
C9_PartialCloneStays ==
    /\ partial \subseteq fs
    /\ partial \cap cloned = {}
    /\ \A e \in Entries(syncLog) : e.priorPartial => (e.existed /\ e.kind = "fetch")

C9_Witness ==
    \E e \in Entries(syncLog) :
        e.priorPartial /\ e.kind = "fetch" /\ e.outcome = "failed"

(***************************************************************************)
(* C10: BackupTarget returns nil exactly when the source is registered and *)
(* the listing succeeded, whatever the outcomes of the clones and fetches; *)
(* an error it returns is the dispatch or listing error.                   *)
(***************************************************************************)
C10_SyncFailuresNotReturned ==
    pc = "returned" =>
        /\ result = NoErr <=> (target.source \in Registered /\ ~ListingFails /\ err = NoErr)
        /\ result # NoErr => result = err

C10_Witness ==
    /\ pc = "returned"
    /\ result = NoErr
    /\ Len(syncLog) = 2
    /\ \A i \in 1..2 : syncLog[i].outcome = "failed"

====
